---- MODULE Spec2Model ----
(***************************************************************************)
(* A model of weather.py: the cache store (load_cache, save_cache), the    *)
(* transport (fetch_url), the location race (get_location_parallel), the   *)
(* ordered weather failover (get_weather_parallel) and the orchestrator    *)
(* (main), as one state machine that runs invocation after invocation      *)
(* against one cache file and one clock.                                   *)
(*                                                                         *)
(* Python values are records [t, s, n]: t is the type tag, s the pieces of *)
(* a string (an f-string keeps its parts), n the value of a number.        *)
(* A JSON object is a sequence of members [k, v], in the order written.    *)
(* Time is in whole seconds.  The interpreter is taken to be CPython 3.11  *)
(* or later, where concurrent.futures.TimeoutError is the builtin          *)
(* TimeoutError that line 151 catches.                                     *)
(***************************************************************************)
EXTENDS Integers, Sequences, FiniteSets, TLC

VARIABLES
    file,         \* the content of CACHE_FILE
    now,          \* time.time()
    pc,           \* where the invocation of main is
    manual_city,  \* main: manual_city
    cache,        \* main: what load_cache returned (or raised)
    city,         \* main: city
    weather,      \* main: weather
    stdout,       \* the lines printed by this invocation
    exc,          \* the exception that left main uncaught, "" if none
    calls,        \* the calls made by the main thread in this invocation, in order
    fut,          \* get_location_parallel: the two futures
    completed,    \* get_location_parallel: the futures in the order they finished
    nyielded,     \* get_location_parallel: how many of them as_completed has yielded
    loc_ret,      \* get_location_parallel: the value it returns
    location,     \* fetch_openmeteo: the selected geocoding candidate
    lastFetch,    \* the fetch_url call that ended in the step just taken, if one did
    saved,        \* what the file system did for this invocation's save_cache, "" if not called
    race          \* the text of CACHE_FILE and the cache operations of concurrent invocations

vars == <<file, now, pc, manual_city, cache, city, weather, stdout, exc, calls,
          fut, completed, nyielded, loc_ret, location, lastFetch, saved, race>>

----------------------------------------------------------------------------
(* Bounds and program constants *)

CACHE_DURATION == 1800
LOCATION_SOURCES_MAX_WORKERS == 2

\* The clock at the first invocation, and how far the model lets it run.
T0 == 10000
MaxElapsed == 1800

----------------------------------------------------------------------------
(* Python values *)

PyNone == [t |-> "None", s |-> <<>>, n |-> 0]
Str(pieces) == [t |-> "str", s |-> pieces, n |-> 0]
Num(x) == [t |-> "num", s |-> <<>>, n |-> x]
PyList == [t |-> "list", s |-> <<>>, n |-> 1]

\* bool(v), as `if v`, `not v` and `a or b` use it
Truthy(v) ==
    CASE v.t = "None" -> FALSE
      [] v.t = "str"  -> v.s # <<>>
      [] v.t = "num"  -> v.n # 0
      [] OTHER        -> TRUE

\* a or b
Or(a, b) == IF Truthy(a) THEN a ELSE b

\* dict: key in d, d.get(key, default)
Has(d, key) == \E i \in 1..Len(d) : d[i].k = key
Get(d, key, default) ==
    IF Has(d, key)
    THEN d[CHOOSE i \in 1..Len(d) : d[i].k = key /\ \A j \in (i+1)..Len(d) : d[j].k # key].v
    ELSE default

UNAVAILABLE == Str(<<"unavailable">>)

\* f"{temp}F, {desc}"
FormatWeather(temp, desc) == Str(<<temp, "F, ", desc>>)

\* f"{v}"
PyStr(v) ==
    CASE v.t = "str"  -> v.s
      [] v.t = "None" -> <<"None">>
      [] OTHER        -> <<"?">>

\* the two lines main can print
WeatherLine(c, w) ==
    <<"You are in ">> \o PyStr(c) \o <<". The current weather is ">> \o PyStr(w) \o <<".">>
UnknownLine == <<"You are in an unknown location. Weather is unavailable.">>

----------------------------------------------------------------------------
(* The cache store *)

\* What CACHE_FILE can hold: no file; a file open() refuses (OSError); bytes
\* that are not UTF-8; text that is not JSON (the empty file included); JSON
\* that is not an object; a JSON object, with its members.
NoFile == [kind |-> "missing", members |-> <<>>]
FileOf(kind) == [kind |-> kind, members |-> <<>>]

\* json.dump of a dict: the members in insertion order
json_dump(d) == [kind |-> "object", members |-> d]

\* line 284: time.time() - cache.get('timestamp', 0) < CACHE_DURATION
IsFreshLe(t, ts) == t - ts <= CACHE_DURATION
IsFresh(t, ts) == t - ts < CACHE_DURATION

RetNone == [tag |-> "None", members |-> <<>>, exc |-> ""]
RetDict(d) == [tag |-> "dict", members |-> d, exc |-> ""]
Raised(e) == [tag |-> "raise", members |-> <<>>, exc |-> e]

\* load_cache() with no handler for JSONDecodeError
load_cache_uncaught(f, t) ==
    CASE f.kind = "missing"    -> RetNone
      [] f.kind = "unreadable" -> RetNone
      [] f.kind = "badutf8"    -> Raised("UnicodeDecodeError")
      [] f.kind = "badjson"    -> Raised("JSONDecodeError")
      [] f.kind = "nonobject"  -> Raised("AttributeError")
      [] OTHER ->
            LET ts == Get(f.members, "timestamp", Num(0)) IN
            IF ts.t # "num" THEN Raised("TypeError")
            ELSE IF t - ts.n < CACHE_DURATION THEN RetDict(f.members)
            ELSE RetNone

\* load_cache(), reading file f at time t
load_cache(f, t) ==
    CASE f.kind = "missing"    -> RetNone                      \* line 277
      [] f.kind = "unreadable" -> RetNone                      \* OSError, line 289
      [] f.kind = "badutf8"    -> Raised("UnicodeDecodeError") \* a ValueError: not caught
      [] f.kind = "badjson"    -> RetNone                      \* JSONDecodeError, line 289
      [] f.kind = "nonobject"  -> Raised("AttributeError")     \* cache.get, not caught
      [] OTHER ->
            LET ts == Get(f.members, "timestamp", Num(0)) IN
            IF ts.t # "num" THEN Raised("TypeError")           \* float - str, not caught
            ELSE IF IsFresh(t, ts.n) THEN RetDict(f.members)
            ELSE RetNone

\* the dict save_cache serialises (lines 305-309)
CacheEntrySwapped(t, c, w) ==
    << [k |-> "timestamp", v |-> Num(t)],
       [k |-> "city",      v |-> w],
       [k |-> "weather",   v |-> c] >>
CacheEntry(t, c, w) ==
    << [k |-> "timestamp", v |-> Num(t)],
       [k |-> "city",      v |-> c],
       [k |-> "weather",   v |-> w] >>

\* save_cache(c, w) at time t, on file f.  io is what the file system does:
\* "ok"; "open_fail", open() raises OSError and the file is as it was;
\* "write_fail", the file is truncated by open() and the write or the close
\* raises OSError.  Both failures are swallowed (line 311).
SaveOutcomes == {"ok", "open_fail", "write_fail"}
save_cache(f, t, c, w, io) ==
    CASE io = "ok"        -> json_dump(CacheEntry(t, c, w))
      [] io = "open_fail" -> f
      [] OTHER            -> FileOf("badjson")

\* The text of the cache file, as a sequence of cells: the braces, the keys, the
\* pieces of a string, a number.  A write puts cells over the cells at the same
\* offsets, so the length of a text in cells stands for its length in bytes.
Cell(c, x) == [c |-> c, s |-> x, n |-> 0]
NumCell(x) == [c |-> "num", s |-> "", n |-> x]

\* json.dump (line 304): the text of a dict whose values are numbers and strings
RECURSIVE EncodeMembers(_)
EncodeMembers(d) ==
    IF d = <<>> THEN <<>>
    ELSE <<Cell("key", d[1].k)>>
         \o (IF d[1].v.t = "num" THEN <<NumCell(d[1].v.n)>>
             ELSE [i \in 1..Len(d[1].v.s) |-> Cell("str", d[1].v.s[i])])
         \o EncodeMembers(Tail(d))
json_text(d) == <<Cell("{", "")>> \o EncodeMembers(d) \o <<Cell("}", "")>>

\* json.load (line 282) of a text.  The decoder reads one object, from the
\* opening brace to the first closing brace, and rejects anything after it
\* ("Extra data"); each key is followed by one number or the pieces of a string.
FirstClose(text) ==
    IF \E i \in DOMAIN text : text[i].c = "}"
    THEN CHOOSE i \in DOMAIN text : text[i].c = "}" /\ \A j \in 1..(i - 1) : text[j].c # "}"
    ELSE 0
ValueLen(cells) ==
    IF \E i \in DOMAIN cells : cells[i].c = "key"
    THEN (CHOOSE i \in DOMAIN cells : cells[i].c = "key" /\ \A j \in 1..(i - 1) : cells[j].c # "key") - 1
    ELSE Len(cells)
IsValue(cells) ==
    \/ Len(cells) = 1 /\ cells[1].c = "num"
    \/ Len(cells) >= 1 /\ \A i \in DOMAIN cells : cells[i].c = "str"
RECURSIVE MembersOk(_)
MembersOk(cells) ==
    IF cells = <<>> THEN TRUE
    ELSE /\ cells[1].c = "key"
         /\ LET n == ValueLen(Tail(cells)) IN
            /\ IsValue(SubSeq(cells, 2, n + 1))
            /\ MembersOk(SubSeq(cells, n + 2, Len(cells)))
RECURSIVE DecodeMembers(_)
DecodeMembers(cells) ==
    IF cells = <<>> THEN <<>>
    ELSE LET n == ValueLen(Tail(cells))
             v == SubSeq(cells, 2, n + 1) IN
         <<[k |-> cells[1].s,
            v |-> IF v[1].c = "num" THEN Num(v[1].n) ELSE Str([i \in 1..Len(v) |-> v[i].s])]>>
         \o DecodeMembers(SubSeq(cells, n + 2, Len(cells)))
json_ok(text) ==
    /\ Len(text) >= 2
    /\ text[1].c = "{"
    /\ FirstClose(text) = Len(text)
    /\ MembersOk(SubSeq(text, 2, Len(text) - 1))

\* what CACHE_FILE is for load_cache, given whether it exists and its text
FileOfText(exists, text) ==
    IF ~exists THEN NoFile
    ELSE IF json_ok(text) THEN json_dump(DecodeMembers(SubSeq(text, 2, Len(text) - 1)))
    ELSE FileOf("badjson")

\* write(2) of text at offset 0 of a file holding old: the cells of old beyond the
\* end of text stay.  The text of an entry is far below the 8 KiB of the file
\* object's buffer, so it reaches the file in one write when the file is closed.
Overwrite(old, text) == text \o SubSeq(old, Len(text) + 1, Len(old))

\* the invocations that run next to each other, and what they save
Invocations == {1, 2}
RaceCities == {Str(<<"Boston">>), Str(<<"New ", "York">>)}
RaceWeathers == {FormatWeather("70", "Light rain"), FormatWeather("68", "Sunny")}

\* no file, nobody in save_cache, nothing read
NoRace ==
    [exists |-> FALSE, text |-> <<>>,
     w |-> [p \in Invocations |-> [pc |-> "idle", city |-> PyNone, weather |-> PyNone]],
     read |-> <<>>, ret |-> RetNone, wrote |-> {}]

----------------------------------------------------------------------------
(* JSON bodies served by the providers.  The bodies a provider can serve are
   listed as a tuple, and the actions draw one by its index. *)

M(key, val) == [k |-> key, v |-> val]
S(x) == Str(<<x>>)
Obj(members) == [j |-> "object", m |-> members]
JList == [j |-> "list", m |-> <<>>]       \* a non-empty JSON array
NoneBody == [j |-> "None", m |-> <<>>]    \* Python None

\* bool(body)
BodyTruthy(b) == (b.j = "object" /\ b.m # <<>>) \/ b.j = "list"

----------------------------------------------------------------------------
(* The transport *)

\* What urlopen / read / decode / json.loads of lines 94-96 can do: succeed, or
\* raise.  URLError, HTTPError (any non-2xx status) and TimeoutError are caught
\* on line 97 (ConnectionError goes the same way); json.JSONDecodeError, a
\* ValueError, is not (nor is UnicodeDecodeError, which goes the same way).
CaughtDirect == {"URLError", "HTTPError", "TimeoutError"}
UncaughtDirect == {"JSONDecodeError"}
DirectOutcomes == {"ok"} \cup CaughtDirect \cup UncaughtDirect

\* What subprocess.run(['curl', ...]) and json.loads of lines 102-111 can do:
\* "ok" is exit code 0 with output that parses; the others leave line 118.
CurlOutcomes == {"ok", "nonzero", "empty", "TimeoutExpired", "JSONDecodeError",
                 "FileNotFoundError"}

Returned(value, viaCurl) == [raised |-> "", value |-> value, curlTried |-> viaCurl]
Raises(e) == [raised |-> e, value |-> NoneBody, curlTried |-> FALSE]

\* fetch_url(url, timeout): direct and curl are what the two attempts do, body
\* is the JSON the URL serves
fetch_url(direct, curl, body) ==
    IF direct = "ok" THEN Returned(body, FALSE)
    ELSE IF direct \in CaughtDirect
         THEN IF curl = "ok" THEN Returned(body, TRUE) ELSE Returned(NoneBody, TRUE)
         ELSE Raises(direct)

\* the record of a fetch_url call that has ended: what the direct attempt did,
\* whether curl was run, what was raised to the caller, whether None was returned,
\* and the value returned
FetchLog(direct, r) ==
    [direct |-> direct, curlTried |-> r.curlTried, raised |-> r.raised,
     none |-> r.raised = "" /\ r.value.j = "None", value |-> r.value]
NoFetch ==
    [direct |-> "", curlTried |-> FALSE, raised |-> "", none |-> FALSE, value |-> NoneBody]

----------------------------------------------------------------------------
(* The location resolver *)

Sources == 1..LOCATION_SOURCES_MAX_WORKERS

LocBodies ==
    << Obj(<<M("city", S("Boston"))>>),
      Obj(<<M("city", Str(<<>>)), M("city_name", S("Salem"))>>),
      Obj(<<M("error", S("rate limited"))>>),
      JList >>

\* a future: not submitted, running, or done with fetch_url's value or exception
NotSubmitted == [state |-> "none", raised |-> "", value |-> NoneBody]
Running == [state |-> "running", raised |-> "", value |-> NoneBody]
Done(r) == [state |-> "done", raised |-> r.raised, value |-> r.value]

\* line 145 reading only 'city'
LocCityOnlyCity(r) ==
    IF r.raised # "" THEN PyNone
    ELSE IF ~BodyTruthy(r.value) THEN PyNone
    ELSE IF r.value.j # "object" THEN PyNone
    ELSE Get(r.value.m, "city", PyNone)
\* lines 141-150 for one yielded future: the city it gives, None if it gives none
LocCity(r) ==
    IF r.raised # "" THEN PyNone                         \* future.result() raises, line 149
    ELSE IF ~BodyTruthy(r.value) THEN PyNone             \* line 143
    ELSE IF r.value.j # "object" THEN PyNone             \* result.get: AttributeError, line 149
    ELSE Or(Get(r.value.m, "city", PyNone), Get(r.value.m, "city_name", PyNone))

----------------------------------------------------------------------------
(* The weather resolver *)

\* WMO_CONDITIONS.get(wmo_code): an unlisted code gives None, which the f-string formats
WmoDescNoDefault(code) ==
    CASE code = 0  -> "Clear"
      [] code = 1  -> "Mainly clear"
      [] code = 2  -> "Partly cloudy"
      [] code = 3  -> "Overcast"
      [] code = 45 -> "Foggy"
      [] code = 48 -> "Foggy"
      [] code = 51 -> "Light drizzle"
      [] code = 53 -> "Drizzle"
      [] code = 55 -> "Heavy drizzle"
      [] code = 61 -> "Light rain"
      [] code = 63 -> "Rain"
      [] code = 65 -> "Heavy rain"
      [] code = 71 -> "Light snow"
      [] code = 73 -> "Snow"
      [] code = 75 -> "Heavy snow"
      [] code = 95 -> "Thunderstorm"
      [] OTHER     -> "None"

\* WMO_CONDITIONS.get(wmo_code, "Unknown")
WmoDesc(code) ==
    CASE code = 0  -> "Clear"
      [] code = 1  -> "Mainly clear"
      [] code = 2  -> "Partly cloudy"
      [] code = 3  -> "Overcast"
      [] code = 45 -> "Foggy"
      [] code = 48 -> "Foggy"
      [] code = 51 -> "Light drizzle"
      [] code = 53 -> "Drizzle"
      [] code = 55 -> "Heavy drizzle"
      [] code = 61 -> "Light rain"
      [] code = 63 -> "Rain"
      [] code = 65 -> "Heavy rain"
      [] code = 71 -> "Light snow"
      [] code = 73 -> "Snow"
      [] code = 75 -> "Heavy snow"
      [] code = 95 -> "Thunderstorm"
      [] OTHER     -> "Unknown"

\* f"{temp}" of the numbers the forecast bodies carry as temperature
NumStr(x) == CASE x = 70 -> "70" [] x = 31 -> "31" [] OTHER -> "0"

\* geocoding candidates: a dict with some of country_code, country, latitude, longitude
Cand(cc, lat) == <<M("country_code", S(cc)), M("latitude", Num(lat)), M("longitude", Num(lat + 1))>>
CandDE == Cand("DE", 52)
CandUS == Cand("US", 42)
CandFR == Cand("FR", 48)
CandUSName == <<M("country", S("United States")), M("latitude", Num(40)), M("longitude", Num(41))>>
CandNoLat == <<M("country_code", S("US")), M("longitude", Num(9))>>
CandNoLon == <<M("country_code", S("DE")), M("latitude", Num(9))>>

GeoBodies ==
    << Obj(<<M("results", <<CandDE, CandUS, CandFR>>)>>),
      Obj(<<M("results", <<CandDE, CandFR>>)>>),
      Obj(<<M("results", <<CandFR, CandUSName, CandUS>>)>>),
      Obj(<<M("results", <<CandDE, CandNoLat>>)>>),
      Obj(<<M("results", <<CandNoLon>>)>>),
      Obj(<<M("results", <<>>)>>),
      Obj(<<M("error", Num(1)), M("reason", S("bad name"))>>),
      Obj(<<>>),
      JList >>

\* line 218
IsUS(c) ==
    \/ Get(c, "country_code", PyNone) = S("US")
    \/ Get(c, "country", PyNone) = S("United States")

\* lines 216-224: the index of the selected candidate
SelectIndexFirst(results) == 1
SelectIndex(results) ==
    IF \E i \in 1..Len(results) : IsUS(results[i])
    THEN CHOOSE i \in 1..Len(results) :
            IsUS(results[i]) /\ \A j \in 1..(i-1) : ~IsUS(results[j])
    ELSE 1

\* What lines 206-232 make of the geocoding fetch r: the selected candidate, or
\* <<>> when the primary path ends there with None
Geocoded(r) ==
    IF r.raised # "" THEN <<>>                            \* line 252
    ELSE IF ~BodyTruthy(r.value) THEN <<>>                \* line 211
    ELSE IF r.value.j # "object" THEN <<>>                \* geo_data.get: AttributeError, line 252
    ELSE IF ~Has(r.value.m, "results") THEN <<>>          \* line 211
    ELSE LET results == Get(r.value.m, "results", <<>>) IN
         IF results = <<>> THEN <<>>                      \* line 211
         ELSE LET loc == results[SelectIndex(results)] IN
              IF Has(loc, "latitude") /\ Has(loc, "longitude") THEN loc
              ELSE <<>>                                   \* KeyError, line 250

ForecastBodies ==
    << Obj(<<M("current_weather", <<M("temperature", Num(70)), M("weathercode", Num(61))>>)>>),
      Obj(<<M("current_weather", <<M("temperature", Num(31)), M("weathercode", Num(999))>>)>>),
      Obj(<<M("current_weather", <<M("temperature", Num(70)), M("weathercode", PyList)>>)>>),
      Obj(<<M("current_weather", <<M("temperature", PyNone), M("weathercode", Num(0))>>)>>),
      Obj(<<M("current_weather", <<M("weathercode", Num(0))>>)>>),
      Obj(<<M("current_weather", <<M("temperature", Num(70))>>)>>),
      Obj(<<M("error", <<>>)>>),
      Obj(<<>>),
      JList >>

\* What lines 238-248 make of the forecast fetch r: the weather string, or None
Forecasted(r) ==
    IF r.raised # "" THEN PyNone                          \* line 252
    ELSE IF ~BodyTruthy(r.value) THEN PyNone              \* line 239
    ELSE IF r.value.j # "object" THEN PyNone              \* 'current_weather' not in a list
    ELSE IF ~Has(r.value.m, "current_weather") THEN PyNone
    ELSE LET cw == Get(r.value.m, "current_weather", <<>>) IN
         IF ~Has(cw, "temperature") \/ ~Has(cw, "weathercode") THEN PyNone   \* KeyError
         ELSE LET temp == Get(cw, "temperature", PyNone)
                  code == Get(cw, "weathercode", PyNone) IN
              IF code.t = "list" THEN PyNone              \* unhashable key: TypeError, line 250
              ELSE FormatWeather(IF temp.t = "num" THEN NumStr(temp.n) ELSE PyStr(temp)[1],
                                 IF code.t = "num" THEN WmoDesc(code.n) ELSE "Unknown")

WttrCond(temp, desc) ==
    <<M("temp_F", S(temp)), M("weatherDesc", <<<<M("value", S(desc))>>>>)>>
WttrBodies ==
    << Obj(<<M("current_condition", <<WttrCond("68", "Sunny")>>)>>),
      Obj(<<M("current_condition", <<<<M("temp_F", S("68"))>>>>)>>),
      Obj(<<M("current_condition", <<<<M("temp_F", S("68")), M("weatherDesc", <<>>)>>>>)>>),
      Obj(<<M("current_condition", <<>>)>>),
      Obj(<<M("nearest_area", <<>>)>>) >>

\* fetch_wttr(): curl is what subprocess.run and json.loads do, body what the
\* service prints
fetch_wttr(curl, body) ==
    IF curl # "ok" THEN PyNone                            \* lines 187, 196, 198
    ELSE IF ~Has(body.m, "current_condition") THEN PyNone \* KeyError
    ELSE LET cc == Get(body.m, "current_condition", <<>>) IN
         IF cc = <<>> THEN PyNone                         \* IndexError
         ELSE IF ~Has(cc[1], "temp_F") \/ ~Has(cc[1], "weatherDesc") THEN PyNone
         ELSE LET wd == Get(cc[1], "weatherDesc", <<>>) IN
              IF wd = <<>> THEN PyNone                    \* IndexError
              ELSE IF ~Has(wd[1], "value") THEN PyNone
              ELSE FormatWeather(Get(cc[1], "temp_F", PyNone).s[1],
                                 Get(wd[1], "value", PyNone).s[1])

\* lines 257-259: the fallback runs unless `if result: return result` returns
FallbackNeededAlways(r) == TRUE
FallbackNeeded(r) == ~Truthy(r)

\* lines 261-266, given what fetch_wttr returned
WeatherOrSentinel(r) == IF Truthy(r) THEN r ELSE UNAVAILABLE

\* the entry of the log of calls for a weather path's return: its name, then the
\* pieces of the string it returned, or "None"
ReturnOf(name, r) == <<name>> \o PyStr(r)

----------------------------------------------------------------------------
(* The orchestrator *)

\* what WEATHER_CITY / the arguments can give: nothing, the empty string, a city
Overrides == {PyNone, Str(<<>>), S("Paris")}

\* bool(cache) for what load_cache returned
CacheTruthy(c) == c.tag = "dict" /\ c.members # <<>>

\* line 329: `if cache and not manual_city`
UseCacheOnlyWithOverride(c, manual) == CacheTruthy(c) /\ Truthy(manual)
UseCache(c, manual) == CacheTruthy(c) /\ ~Truthy(manual)

\* line 335: `if not city`
UnknownLocationNever(c) == FALSE
UnknownLocation(c) == ~Truthy(c)

\* line 343: `if not manual_city and weather != "unavailable"`
ShouldSaveAnyWeather(manual, w) == ~Truthy(manual)
ShouldSaveAnyCity(manual, w) == w # UNAVAILABLE
ShouldSave(manual, w) == ~Truthy(manual) /\ w # UNAVAILABLE


\* the state of a process that has not started
Fresh ==
    /\ pc = "idle"
    /\ manual_city = PyNone
    /\ cache = RetNone
    /\ city = PyNone
    /\ weather = PyNone
    /\ stdout = <<>>
    /\ exc = ""
    /\ calls = <<>>
    /\ fut = [i \in Sources |-> NotSubmitted]
    /\ completed = <<>>
    /\ nyielded = 0
    /\ loc_ret = PyNone
    /\ location = <<>>
    /\ lastFetch = NoFetch
    /\ saved = ""

\* the cache files an invocation can find: none, the unusable ones, entries
\* written one second and CACHE_DURATION seconds ago, and objects of other shapes
Written(age) == json_dump(CacheEntry(T0 - age, S("Boston"), FormatWeather("70", "Clear")))
InitFiles ==
    { NoFile, FileOf("unreadable"), FileOf("badutf8"), FileOf("badjson"), FileOf("nonobject"),
      Written(1), Written(CACHE_DURATION),
      json_dump(<<>>),
      json_dump(<<M("city", S("Boston")), M("weather", FormatWeather("70", "Clear"))>>),
      json_dump(<<M("timestamp", S("yesterday")), M("city", S("Boston")),
                  M("weather", FormatWeather("70", "Clear"))>>),
      json_dump(<<M("timestamp", Num(T0 - 1)), M("weather", FormatWeather("70", "Clear"))>>),
      json_dump(<<M("timestamp", Num(T0 - 1)), M("city", S("Boston"))>>) }

Init ==
    /\ file \in InitFiles
    /\ now = T0
    /\ Fresh
    /\ race = NoRace

InitNoFile ==
    /\ file = NoFile
    /\ now = T0
    /\ Fresh
    /\ race = NoRace

\* time passes between invocations
Tick(d) ==
    /\ pc = "idle"
    /\ now + d <= T0 + MaxElapsed
    /\ now' = now + d
    /\ UNCHANGED <<race, file, pc, manual_city, cache, city, weather, stdout, exc, calls,
                   fut, completed, nyielded, loc_ret, location, lastFetch, saved>>

\* lines 323-325: the process starts, with or without an override
Start(m) ==
    /\ pc = "idle"
    /\ pc' = "load"
    /\ manual_city' = m
    /\ UNCHANGED <<race, file, now, cache, city, weather, stdout, exc, calls,
                   fut, completed, nyielded, loc_ret, location, lastFetch, saved>>

\* lines 328-333: load_cache, then the cached pair, the override or the resolver
LoadCache ==
    /\ pc = "load"
    /\ LET c == load_cache(file, now) IN
       /\ cache' = c
       /\ calls' = Append(calls, <<"load_cache">>)
       /\ IF c.tag = "raise"
          THEN /\ exc' = c.exc
               /\ pc' = "crashed"
               /\ UNCHANGED <<city, weather>>
          ELSE IF UseCache(c, manual_city)
          THEN IF Has(c.members, "city") /\ Has(c.members, "weather")
               THEN /\ city' = Get(c.members, "city", PyNone)
                    /\ weather' = Get(c.members, "weather", PyNone)
                    /\ pc' = "print"
                    /\ exc' = ""
               ELSE /\ exc' = "KeyError"                      \* line 330
                    /\ pc' = "crashed"
                    /\ UNCHANGED <<city, weather>>
          ELSE /\ exc' = ""
               /\ weather' = weather
               /\ IF Truthy(manual_city)
                  THEN city' = manual_city /\ pc' = "weather"
                  ELSE city' = city /\ pc' = "locate"
    /\ UNCHANGED <<race, file, now, manual_city, stdout, fut, completed, nyielded, loc_ret,
                   location, lastFetch, saved>>

\* line 137: both fetches are submitted and start at once (two workers)
LocSubmit ==
    /\ pc = "locate"
    /\ pc' = "loc_wait"
    /\ calls' = Append(calls, <<"get_location_parallel">>)
    /\ fut' = [i \in Sources |-> Running]
    /\ UNCHANGED <<race, file, now, manual_city, cache, city, weather, stdout, exc,
                   completed, nyielded, loc_ret, location, lastFetch, saved>>

\* a worker's fetch_url(url, LOCATION_TIMEOUT) ends
ProviderDone(i, direct, curl, body) ==
    /\ pc \in {"loc_wait", "loc_shutdown"}
    /\ fut[i].state = "running"
    /\ LET r == fetch_url(direct, curl, body) IN
       /\ fut' = [fut EXCEPT ![i] = Done(r)]
       /\ lastFetch' = FetchLog(direct, r)
    /\ completed' = Append(completed, i)
    /\ UNCHANGED <<race, file, now, pc, manual_city, cache, city, weather, stdout, exc, calls,
                   nyielded, loc_ret, location, saved>>

\* lines 140-150: as_completed yields the next finished future
LocYield ==
    /\ pc = "loc_wait"
    /\ nyielded < Len(completed)
    /\ LET c == LocCity(fut[completed[nyielded + 1]]) IN
       /\ nyielded' = nyielded + 1
       /\ IF Truthy(c)
          THEN loc_ret' = c /\ pc' = "loc_shutdown"                 \* line 148
          ELSE /\ loc_ret' = PyNone
               /\ pc' = IF nyielded + 1 = LOCATION_SOURCES_MAX_WORKERS
                        THEN "loc_shutdown"                         \* the loop ends, line 155
                        ELSE "loc_wait"
    /\ lastFetch' = NoFetch
    /\ UNCHANGED <<race, file, now, manual_city, cache, city, weather, stdout, exc, calls,
                   fut, completed, location, saved>>

\* lines 151-152: the deadline passes with a future still running, every
\* finished one having been yielded
LocDeadline ==
    /\ pc = "loc_wait"
    /\ nyielded = Len(completed)
    /\ Len(completed) < LOCATION_SOURCES_MAX_WORKERS
    /\ loc_ret' = PyNone
    /\ pc' = "loc_shutdown"
    /\ lastFetch' = NoFetch
    /\ UNCHANGED <<race, file, now, manual_city, cache, city, weather, stdout, exc, calls,
                   fut, completed, nyielded, location, saved>>

\* line 136: leaving the `with` block shuts the executor down, which waits for
\* both workers; then the function returns, and lines 333 and 335 run
LocReturn ==
    /\ pc = "loc_shutdown"
    /\ \A i \in Sources : fut[i].state = "done"
    /\ city' = Or(manual_city, loc_ret)
    /\ pc' = IF UnknownLocation(Or(manual_city, loc_ret)) THEN "unknown" ELSE "weather"
    /\ fut' = [i \in Sources |-> NotSubmitted]
    /\ completed' = <<>>
    /\ nyielded' = 0
    /\ loc_ret' = PyNone
    /\ lastFetch' = NoFetch
    /\ UNCHANGED <<race, file, now, manual_city, cache, weather, stdout, exc, calls,
                   location, saved>>

\* lines 336-337
PrintUnknown ==
    /\ pc = "unknown"
    /\ stdout' = Append(stdout, UnknownLine)
    /\ calls' = Append(calls, <<"print">>)
    /\ pc' = "done"
    /\ UNCHANGED <<race, file, now, manual_city, cache, city, weather, exc,
                   fut, completed, nyielded, loc_ret, location, lastFetch, saved>>

\* lines 257-259, once fetch_openmeteo has returned r
AfterPrimary(r) ==
    IF FallbackNeeded(r)
    THEN pc' = "wttr" /\ weather' = weather
    ELSE pc' = "got_weather" /\ weather' = r

\* lines 340, 257, 206-232: get_weather_parallel starts fetch_openmeteo, which
\* geocodes the city and selects a candidate
Geocode(direct, curl, body) ==
    /\ pc = "weather"
    /\ LET r == fetch_url(direct, curl, body)
           loc == Geocoded(r) IN
       /\ lastFetch' = FetchLog(direct, r)
       /\ location' = loc
       /\ IF loc = <<>>
          THEN /\ calls' = calls \o << <<"get_weather_parallel">>, <<"fetch_openmeteo">>,
                                      <<"fetch_url">>, ReturnOf("fetch_openmeteo", PyNone) >>
               /\ AfterPrimary(PyNone)
          ELSE /\ calls' = calls \o << <<"get_weather_parallel">>, <<"fetch_openmeteo">>,
                                      <<"fetch_url">> >>
               /\ pc' = "forecast"
               /\ weather' = weather
    /\ UNCHANGED <<race, file, now, manual_city, cache, city, stdout, exc,
                   fut, completed, nyielded, loc_ret, saved>>

\* lines 234-248: the forecast for the selected candidate; fetch_openmeteo returns
Forecast(direct, curl, body) ==
    /\ pc = "forecast"
    /\ LET r == fetch_url(direct, curl, body)
           w == Forecasted(r) IN
       /\ lastFetch' = FetchLog(direct, r)
       /\ calls' = calls \o << <<"fetch_url">>, ReturnOf("fetch_openmeteo", w) >>
       /\ AfterPrimary(w)
    /\ location' = <<>>
    /\ UNCHANGED <<race, file, now, manual_city, cache, city, stdout, exc,
                   fut, completed, nyielded, loc_ret, saved>>

\* lines 261-266: fetch_wttr, then its result or the sentinel
Wttr(curl, body) ==
    /\ pc = "wttr"
    /\ LET w == fetch_wttr(curl, body) IN
       /\ weather' = WeatherOrSentinel(w)
       /\ calls' = calls \o << <<"fetch_wttr">>, ReturnOf("fetch_wttr", w) >>
    /\ pc' = "got_weather"
    /\ lastFetch' = NoFetch
    /\ UNCHANGED <<race, file, now, manual_city, cache, city, stdout, exc,
                   fut, completed, nyielded, loc_ret, location, saved>>

\* lines 343-344: save_cache, if the guard lets it run
SaveStep(io) ==
    /\ pc = "got_weather"
    /\ IF ShouldSave(manual_city, weather)
       THEN /\ file' = save_cache(file, now, city, weather, io)
            /\ saved' = io
            /\ calls' = Append(calls, <<"save_cache">>)
       ELSE UNCHANGED <<file, saved, calls>>
    /\ pc' = "print"
    /\ lastFetch' = NoFetch
    /\ UNCHANGED <<race, now, manual_city, cache, city, weather, stdout, exc,
                   fut, completed, nyielded, loc_ret, location>>

\* line 346
PrintWeather ==
    /\ pc = "print"
    /\ stdout' = Append(stdout, WeatherLine(city, weather))
    /\ calls' = Append(calls, <<"print">>)
    /\ pc' = "done"
    /\ UNCHANGED <<race, file, now, manual_city, cache, city, weather, exc,
                   fut, completed, nyielded, loc_ret, location, lastFetch, saved>>

\* the process ends, by returning from main or by the uncaught exception; the
\* file and the clock are all the next invocation inherits
Exit ==
    /\ pc \in {"done", "crashed"}
    /\ pc' = "idle"
    /\ manual_city' = PyNone
    /\ cache' = RetNone
    /\ city' = PyNone
    /\ weather' = PyNone
    /\ stdout' = <<>>
    /\ exc' = ""
    /\ calls' = <<>>
    /\ fut' = [i \in Sources |-> NotSubmitted]
    /\ completed' = <<>>
    /\ nyielded' = 0
    /\ loc_ret' = PyNone
    /\ location' = <<>>
    /\ lastFetch' = NoFetch
    /\ saved' = ""
    /\ UNCHANGED <<race, file, now>>

TickSteps == {CACHE_DURATION - 1, CACHE_DURATION}

Next ==
    \/ \E d \in TickSteps : Tick(d)
    \/ \E m \in Overrides : Start(m)
    \/ LoadCache
    \/ LocSubmit
    \/ \E i \in Sources, direct \in DirectOutcomes, curl \in CurlOutcomes, b \in DOMAIN LocBodies :
          ProviderDone(i, direct, curl, LocBodies[b])
    \/ LocYield
    \/ LocDeadline
    \/ LocReturn
    \/ PrintUnknown
    \/ \E direct \in DirectOutcomes, curl \in CurlOutcomes, b \in DOMAIN GeoBodies :
          Geocode(direct, curl, GeoBodies[b])
    \/ \E direct \in DirectOutcomes, curl \in CurlOutcomes, b \in DOMAIN ForecastBodies :
          Forecast(direct, curl, ForecastBodies[b])
    \/ \E curl \in CurlOutcomes, b \in DOMAIN WttrBodies : Wttr(curl, WttrBodies[b])
    \/ \E io \in SaveOutcomes : SaveStep(io)
    \/ PrintWeather
    \/ Exit

Spec == Init /\ [][Next]_vars

\* the same program, started where there is no cache file yet
SpecNoFile == InitNoFile /\ [][Next]_vars

\* the steps of a running invocation.  Each one ends by itself: a fetch by its
\* urlopen timeout and the timeout of its curl process (lines 93, 108), fetch_wttr
\* by the timeout of subprocess.run (line 184), the wait on the futures by the
\* timeout of as_completed (line 140); the others do not block.
Step ==
    \/ LoadCache
    \/ LocSubmit
    \/ \E i \in Sources, direct \in DirectOutcomes, curl \in CurlOutcomes, b \in DOMAIN LocBodies :
          ProviderDone(i, direct, curl, LocBodies[b])
    \/ LocYield
    \/ LocDeadline
    \/ LocReturn
    \/ PrintUnknown
    \/ \E direct \in DirectOutcomes, curl \in CurlOutcomes, b \in DOMAIN GeoBodies :
          Geocode(direct, curl, GeoBodies[b])
    \/ \E direct \in DirectOutcomes, curl \in CurlOutcomes, b \in DOMAIN ForecastBodies :
          Forecast(direct, curl, ForecastBodies[b])
    \/ \E curl \in CurlOutcomes, b \in DOMAIN WttrBodies : Wttr(curl, WttrBodies[b])
    \/ \E io \in SaveOutcomes : SaveStep(io)
    \/ PrintWeather

\* the program with every timeout firing: a running invocation keeps taking
\* steps.  Every step changes the position of main, or the list of finished
\* futures, or the number of futures yielded.
SpecLive == Init /\ [][Next]_vars /\ WF_<<pc, completed, nyielded>>(Step)

----------------------------------------------------------------------------
(* Two invocations in their cache operations at the same time.  Nothing locks
   the file: save_cache opens it, which truncates it, dumps the entry into the
   buffer of the file object, and closes it, which writes the text; load_cache
   reads the text in between. *)

\* line 303: invocation p enters save_cache(c, w) and opens the file for writing
RaceOpen(p, c, w) ==
    /\ race.w[p].pc = "idle"
    /\ race' = [race EXCEPT !.exists = TRUE, !.text = <<>>,
                            !.w[p] = [pc |-> "open", city |-> c, weather |-> w]]
    /\ file' = FileOfText(TRUE, <<>>)
    /\ UNCHANGED <<now, pc, manual_city, cache, city, weather, stdout, exc, calls,
                   fut, completed, nyielded, loc_ret, location, lastFetch, saved>>

\* lines 304-309: invocation p dumps its entry and leaves the `with` block
RaceWrite(p) ==
    /\ race.w[p].pc = "open"
    /\ LET entry == CacheEntry(now, race.w[p].city, race.w[p].weather)
           text == Overwrite(race.text, json_text(entry)) IN
       /\ race' = [race EXCEPT !.text = text,
                               !.w[p] = [pc |-> "idle", city |-> PyNone, weather |-> PyNone],
                               !.wrote = @ \cup {<<race.w[p].city, race.w[p].weather>>}]
       /\ file' = FileOfText(TRUE, text)
    /\ UNCHANGED <<now, pc, manual_city, cache, city, weather, stdout, exc, calls,
                   fut, completed, nyielded, loc_ret, location, lastFetch, saved>>

\* lines 277-292: an invocation calls load_cache, whatever the others are doing
RaceLoad ==
    /\ pc = "idle"
    /\ race' = [race EXCEPT !.read = <<race.text>>, !.ret = load_cache(file, now)]
    /\ UNCHANGED <<file, now, pc, manual_city, cache, city, weather, stdout, exc, calls,
                   fut, completed, nyielded, loc_ret, location, lastFetch, saved>>

NextRace ==
    \/ \E p \in Invocations, c \in RaceCities, w \in RaceWeathers : RaceOpen(p, c, w)
    \/ \E p \in Invocations : RaceWrite(p)
    \/ RaceLoad

SpecRace == InitNoFile /\ [][NextRace]_vars

----------------------------------------------------------------------------
(* Properties *)

InCalls(entry) == \E i \in DOMAIN calls : calls[i] = entry
Loaded == InCalls(<<"load_cache">>)
NoOverride == ~Truthy(manual_city)

\* a cache file of the CacheEntry shape: an object with a numeric timestamp and
\* a city and a weather that are strings
IsEntry(d) ==
    /\ Has(d, "timestamp") /\ Get(d, "timestamp", PyNone).t = "num"
    /\ Has(d, "city") /\ Get(d, "city", PyNone).t = "str"
    /\ Has(d, "weather") /\ Get(d, "weather", PyNone).t = "str"
WellFormed(f) == f.kind = "object" /\ IsEntry(f.members)

\* C1: whenever load_cache reads a well-formed cache file, it returns the stored
\* entry unchanged if now - timestamp < 1800 and None if now - timestamp >= 1800;
\* an age of exactly 1800 seconds is expired.
C1_Freshness ==
    [][ (pc = "load" /\ pc' # "load" /\ WellFormed(file)) =>
          LET age == now - Get(file.members, "timestamp", PyNone).n IN
          /\ age < 1800  => cache' = [tag |-> "dict", members |-> file.members, exc |-> ""]
          /\ age >= 1800 => cache' = [tag |-> "None", members |-> <<>>, exc |-> ""]
      ]_vars

\* an entry exactly 1800 seconds old has been read, and load_cache returned None
C1_Witness ==
    /\ pc = "locate"
    /\ WellFormed(file)
    /\ now - Get(file.members, "timestamp", PyNone).n = 1800
    /\ cache.tag = "None"

\* C2: save_cache is called neither in an invocation with a (non-empty) manual
\* override nor in one whose weather is "unavailable"; and, starting with no cache
\* file, the file never holds the weather "unavailable".
C2_NoPoisonedCache ==
    /\ InCalls(<<"save_cache">>) =>
          /\ manual_city \in {PyNone, Str(<<>>)}
          /\ weather.s # <<"unavailable">>
    /\ saved # "" => InCalls(<<"save_cache">>)
    /\ (file.kind = "object" /\ Has(file.members, "weather")) =>
          Get(file.members, "weather", PyNone).s # <<"unavailable">>

\* the override "Paris" with both weather paths failing: "unavailable" is
\* printed, nothing was saved and there is still no cache file
C2_Witness ==
    /\ pc = "done"
    /\ manual_city = S("Paris")
    /\ weather.s = <<"unavailable">>
    /\ ~InCalls(<<"save_cache">>)
    /\ file.kind = "missing"
    /\ stdout = << <<"You are in ", "Paris", ". The current weather is ", "unavailable", ".">> >>

\* C3: with no override and a fresh, valid entry returned by load_cache, the
\* invocation calls nothing but load_cache and print (no resolver, no fetch, no
\* curl, no save), submits no future, and prints exactly the cached pair.
C3_CacheHitNoNetwork ==
    (Loaded /\ NoOverride /\ cache.tag = "dict" /\ IsEntry(cache.members)) =>
        /\ pc \in {"print", "done"}
        /\ \A i \in DOMAIN calls : calls[i] \in {<<"load_cache">>, <<"print">>}
        /\ \A i \in Sources : fut[i].state = "none"
        /\ lastFetch.direct = "" /\ saved = ""
        /\ city = Get(cache.members, "city", PyNone)
        /\ weather = Get(cache.members, "weather", PyNone)
        /\ pc = "done" =>
              stdout = << <<"You are in ">> \o Get(cache.members, "city", PyNone).s
                          \o <<". The current weather is ">>
                          \o Get(cache.members, "weather", PyNone).s \o <<".">> >>

\* the cached Boston entry has been printed by an invocation without override
C3_Witness ==
    /\ pc = "done"
    /\ NoOverride
    /\ cache.tag = "dict"
    /\ stdout = << <<"You are in ", "Boston", ". The current weather is ",
                    "70", "F, ", "Clear", ".">> >>

PrimaryNone == <<"fetch_openmeteo", "None">>
FallbackNone == <<"fetch_wttr", "None">>
IsReturn(e, name) == Len(e) > 1 /\ e[1] = name
WeatherResolved == InCalls(<<"get_weather_parallel">>) /\ pc \in {"got_weather", "print", "done"}

\* C4: get_weather_parallel runs fetch_openmeteo first; fetch_wttr is called if
\* and only if fetch_openmeteo returned None; when fetch_openmeteo returns a
\* string that string is the result and fetch_wttr is not called; the result is
\* "unavailable" if and only if both returned None.
C4_OrderedFailover ==
    /\ \A i \in DOMAIN calls :
          /\ calls[i] = <<"get_weather_parallel">> =>
                i < Len(calls) /\ calls[i + 1] = <<"fetch_openmeteo">>
          /\ calls[i] = <<"fetch_wttr">> => \E j \in 1..(i - 1) : calls[j] = PrimaryNone
          /\ (IsReturn(calls[i], "fetch_openmeteo") /\ calls[i] # PrimaryNone) =>
                /\ ~InCalls(<<"fetch_wttr">>)
                /\ pc \in {"got_weather", "print", "done"}
                /\ weather.s = Tail(calls[i])
    /\ InCalls(PrimaryNone) => (pc = "wttr" \/ InCalls(<<"fetch_wttr">>))
    /\ WeatherResolved =>
          (weather.s = <<"unavailable">> <=> (InCalls(PrimaryNone) /\ InCalls(FallbackNone)))

\* the primary path has returned a reading, which is the weather, and the
\* fallback has not been called
C4_Witness ==
    /\ pc = "got_weather"
    /\ InCalls(<<"fetch_openmeteo", "70", "F, ", "Light rain">>)
    /\ ~InCalls(<<"fetch_wttr">>)
    /\ weather.s = <<"70", "F, ", "Light rain">>

\* C5: no fetch_url call raises to its caller, whatever the direct attempt and
\* the curl attempt do.
C5_TransportNeverRaises == lastFetch.raised = ""

\* C6: every invocation ends without an uncaught exception, having printed
\* exactly one line, the weather line or the unknown-location line.
C6_AlwaysExitsCleanly ==
    /\ pc # "crashed"
    /\ exc = ""
    /\ pc = "done" =>
          /\ Len(stdout) = 1
          /\ \/ stdout[1] = <<"You are in an unknown location. Weather is unavailable.">>
             \/ stdout[1] = <<"You are in ">> \o city.s \o <<". The current weather is ">>
                               \o weather.s \o <<".">>

\* C7: a cache file that is not of the CacheEntry shape is treated as absent:
\* load_cache does not raise and returns a dict only if it is an entry, and main
\* goes on as on a cache miss.
C7_WrongShapeIsAbsent ==
    Loaded =>
        /\ cache.tag # "raise"
        /\ cache.tag = "dict" => IsEntry(cache.members)
        /\ pc # "crashed"

\* C8: for a cache file whose content cannot be decoded (bytes that are not
\* UTF-8, text that is not JSON), load_cache returns None and does not raise.
C8_UndecodableIsAbsent ==
    (Loaded /\ ~InCalls(<<"save_cache">>) /\ file.kind \in {"badutf8", "badjson"}) =>
        cache = [tag |-> "None", members |-> <<>>, exc |-> ""]

\* what load_cache returns for file f at time t has the pair (c, w)
LoadsPair(f, t, c, w) ==
    LET r == load_cache(f, t) IN
    /\ r.tag = "dict"
    /\ Has(r.members, "city") /\ Get(r.members, "city", PyNone) = c
    /\ Has(r.members, "weather") /\ Get(r.members, "weather", PyNone) = w

\* the times at which the file just written is read back: at once, a second
\* later, and at the last second of the TTL
ReadBackDelays == {0, 1, 1799}

C10_UnknownLocation ==
    (InCalls(<<"get_location_parallel">>) /\ pc \notin {"loc_wait", "loc_shutdown"}
        /\ ~Truthy(city)) =>
        /\ pc \in {"unknown", "done"}
        /\ ~InCalls(<<"get_weather_parallel">>)
        /\ ~InCalls(<<"fetch_openmeteo">>) /\ ~InCalls(<<"fetch_wttr">>)
        /\ ~InCalls(<<"save_cache">>) /\ saved = ""
        /\ weather = PyNone
        /\ pc = "done" =>
              stdout = << <<"You are in an unknown location. Weather is unavailable.">> >>

\* the unknown-location line has been printed
C10_Witness ==
    /\ pc = "done"
    /\ NoOverride
    /\ InCalls(<<"get_location_parallel">>)
    /\ stdout = << <<"You are in an unknown location. Weather is unavailable.">> >>

\* the least element of a non-empty set of indices
Lowest(I) == CHOOSE i \in I : \A j \in I : i <= j

\* the geocoding step has just selected a candidate from the list it fetched
JustGeocoded == pc = "forecast" /\ lastFetch.direct # ""

\* the candidate list of the geocoding response just fetched
FetchedResults == Get(lastFetch.value.m, "results", <<>>)

\* C11: from a non-empty candidate list the geocoding step selects the candidate
\* of lowest index whose country_code is "US" or whose country is "United
\* States", and the first candidate when there is none: of [DE, US, FR] the
\* second, of [DE, FR] the first.
C11_CandidateSelection ==
    JustGeocoded =>
        LET results == FetchedResults
            us == {i \in DOMAIN results :
                      \/ Get(results[i], "country_code", PyNone) = S("US")
                      \/ Get(results[i], "country", PyNone) = S("United States")}
        IN /\ results # <<>>
           /\ us # {} => location = results[Lowest(us)]
           /\ us = {} => location = results[1]
           /\ results = <<CandDE, CandUS, CandFR>> => location = CandUS
           /\ results = <<CandDE, CandFR>> => location = CandDE

\* the US candidate, second of [DE, US, FR], has been selected
C11_Witness ==
    /\ JustGeocoded
    /\ FetchedResults = <<CandDE, CandUS, CandFR>>
    /\ location = CandUS
    /\ Get(location, "latitude", PyNone) = Num(42)

\* the codes of WMO_CONDITIONS, and the range of codes the mapping is checked on
WmoListed == {0, 1, 2, 3, 45, 48, 51, 53, 55, 61, 63, 65, 71, 73, 75, 95}
MaxCode == 1000

\* the forecast step has just been taken and its fetch returned a response with
\* current weather
JustForecast ==
    /\ lastFetch.direct # "" /\ lastFetch.raised = ""
    /\ lastFetch.value.j = "object"
    /\ Has(lastFetch.value.m, "current_weather")
ForecastCurrent == Get(lastFetch.value.m, "current_weather", <<>>)

\* C12: each of the 16 codes of the table has its label (61 is "Light rain"),
\* every other code is "Unknown"; and a forecast with a numeric temperature and
\* an unlisted code is a success of the primary path: the result is
\* "{temperature}F, Unknown" and fetch_wttr is not called.
C12_WmoMapping ==
    /\ WmoDesc(61) = "Light rain"
    /\ \A c \in WmoListed : WmoDesc(c) # "Unknown"
    /\ \A c \in (0..MaxCode) \ WmoListed : WmoDesc(c) = "Unknown"
    /\ (/\ JustForecast
        /\ Has(ForecastCurrent, "temperature") /\ Has(ForecastCurrent, "weathercode")
        /\ Get(ForecastCurrent, "temperature", PyNone).t = "num"
        /\ Get(ForecastCurrent, "weathercode", PyNone).t = "num") =>
           LET temp == Get(ForecastCurrent, "temperature", PyNone).n
               code == Get(ForecastCurrent, "weathercode", PyNone).n
           IN /\ pc = "got_weather"
              /\ ~InCalls(<<"fetch_wttr">>)
              /\ code = 61 => weather = Str(<<NumStr(temp), "F, ", "Light rain">>)
              /\ code \notin WmoListed => weather = Str(<<NumStr(temp), "F, ", "Unknown">>)
              /\ InCalls(<<"fetch_openmeteo">> \o weather.s)

\* the forecast carried the unlisted code 999: the primary path returned
\* "31F, Unknown" and the fallback was not run
C12_Witness ==
    /\ JustForecast
    /\ Get(ForecastCurrent, "weathercode", PyNone) = Num(999)
    /\ weather = Str(<<"31", "F, ", "Unknown">>)
    /\ pc = "got_weather"
    /\ ~InCalls(<<"fetch_wttr">>)

\* C13: within one fetch_url call curl is run if and only if the direct attempt
\* failed, a body that cannot be decoded counting as a failure like a network
\* error or a timeout; curl is never run after a direct attempt that succeeded.
C13_CurlIffDirectFailed ==
    lastFetch.direct # "" => (lastFetch.curlTried <=> lastFetch.direct # "ok")

\* the usable city of a provider's future: the non-empty string under 'city',
\* else the non-empty string under 'city_name', of the object its request
\* returned; None when the request is not done, raised, or returned anything else
UsableCity(f) ==
    IF f.state = "done" /\ f.raised = "" /\ f.value.j = "object"
    THEN LET c == Get(f.value.m, "city", PyNone)
             n == Get(f.value.m, "city_name", PyNone)
         IN IF c.t = "str" /\ c.s # <<>> THEN c
            ELSE IF n.t = "str" /\ n.s # <<>> THEN n
            ELSE PyNone
    ELSE PyNone

\* the positions, in completion order, of the providers done with a usable city
UsablePositions == {k \in 1..Len(completed) : UsableCity(fut[completed[k]]) # PyNone}

\* C14: the result of get_location_parallel is decided by completion order
\* alone: when it is decided, at the latest at the deadline, it is the city
\* ('city', else 'city_name') of the first provider in completion order that is
\* done with a non-empty city, whichever provider that is, and it is None only
\* if no provider is done with a usable city by then; a provider that failed,
\* raised or answered without a city does not change this; and this result is
\* what the function returns.
C14_FirstUsableWins ==
    [][ /\ (pc = "loc_wait" /\ pc' = "loc_shutdown") =>
            /\ UsablePositions # {} =>
                  loc_ret' = UsableCity(fut[completed[Lowest(UsablePositions)]])
            /\ UsablePositions = {} => loc_ret' = PyNone
        /\ (pc = "loc_wait" /\ pc' = "loc_wait") =>
            (UsablePositions = {} \/ nyielded < Lowest(UsablePositions))
        /\ (pc = "loc_shutdown" /\ pc' = "loc_shutdown") => loc_ret' = loc_ret
        /\ (pc = "loc_shutdown" /\ pc' # "loc_shutdown") =>
            /\ city' = loc_ret
            /\ pc' = IF loc_ret = PyNone THEN "unknown" ELSE "weather"
      ]_vars

\* both providers answered with a city, the second before the first: the result
\* is the second provider's, found under 'city_name'
C14_Witness ==
    /\ pc = "loc_shutdown"
    /\ completed = <<2, 1>>
    /\ UsableCity(fut[1]) = S("Boston")
    /\ UsableCity(fut[2]) = S("Salem")
    /\ loc_ret = S("Salem")

\* C15: once the result of get_location_parallel is decided, by a winning
\* provider or by the deadline, the function can return to its caller at once:
\* its return does not wait for a provider request that is still running.
C15_ReturnsWithoutWaiting ==
    pc = "loc_shutdown" => ENABLED LocReturn

\* C16: with a non-empty manual override the cache file has no influence on the
\* invocation: whatever the file holds, the invocation goes on with the override
\* as its city, does not call get_location_parallel, leaves the cache file as
\* it is, and prints the weather line of the override and of the weather it
\* resolved itself.
C16_OverrideBypassesCache ==
    (Loaded /\ Truthy(manual_city)) =>
        /\ pc # "crashed"
        /\ city = manual_city
        /\ ~InCalls(<<"get_location_parallel">>)
        /\ ~InCalls(<<"save_cache">>) /\ saved = ""
        /\ pc \in {"print", "done"} => WeatherResolved
        /\ pc = "done" => stdout = <<WeatherLine(manual_city, weather)>>

\* the number of fetch_url calls the primary path has made in this invocation:
\* the first is the geocoding fetch, the second the forecast fetch
PrimaryFetches == Cardinality({i \in DOMAIN calls : calls[i] = <<"fetch_url">>})

\* the geocoding fetch has just returned no data, no candidates, or candidates of
\* which the selected one lacks latitude or longitude
GeocodingUnusable ==
    /\ lastFetch.direct # "" /\ lastFetch.raised = "" /\ PrimaryFetches = 1
    /\ \/ lastFetch.none
       \/ /\ lastFetch.value.j = "object"
          /\ \/ FetchedResults = <<>>
             \/ LET sel == FetchedResults[SelectIndex(FetchedResults)]
                IN ~Has(sel, "latitude") \/ ~Has(sel, "longitude")

\* the forecast fetch has just returned nothing, a response without current
\* weather, or one whose temperature or weather code is missing or not a number
ForecastUnusable ==
    /\ lastFetch.direct # "" /\ lastFetch.raised = "" /\ PrimaryFetches = 2
    /\ \/ lastFetch.none
       \/ /\ lastFetch.value.j = "object"
          /\ \/ ~Has(lastFetch.value.m, "current_weather")
             \/ ~Has(ForecastCurrent, "temperature")
             \/ ~Has(ForecastCurrent, "weathercode")
             \/ Get(ForecastCurrent, "temperature", PyNone).t # "num"
             \/ Get(ForecastCurrent, "weathercode", PyNone).t # "num"

\* C17: when the geocoding or the forecast response is unusable, the primary
\* path returns None without raising and without side effect (no cache write, no
\* weather set), and the fallback path is next for the same city.
C17_PrimaryFailureFallsBack ==
    (GeocodingUnusable \/ ForecastUnusable) =>
        /\ pc = "wttr"
        /\ calls[Len(calls)] = PrimaryNone
        /\ weather = PyNone
        /\ exc = ""
        /\ saved = "" /\ ~InCalls(<<"save_cache">>)

\* C18: load_cache leaves the cache file as it is, and so does every step of an
\* invocation that hit the cache, that ends in the unknown-location outcome, that
\* has an override, or whose weather is "unavailable": the file changes only in
\* the save step of an invocation without override that resolved its city
\* itself and obtained a weather other than "unavailable".
C18_CacheFileFrame ==
    [][ /\ pc = "load" => file' = file
        /\ file' # file =>
              /\ pc = "got_weather" /\ pc' = "print"
              /\ ~Truthy(manual_city)
              /\ InCalls(<<"get_location_parallel">>)
              /\ Truthy(city)
              /\ weather.t = "str" /\ weather.s # <<"unavailable">>
      ]_vars

\* an expired entry was read, location and both weather paths were tried, the
\* weather is "unavailable", and the expired file is still there as it was
C18_Witness ==
    /\ pc = "done"
    /\ file = Written(CACHE_DURATION)
    /\ now - Get(file.members, "timestamp", PyNone).n >= 1800
    /\ cache.tag = "None"
    /\ InCalls(<<"get_location_parallel">>) /\ InCalls(PrimaryNone) /\ InCalls(FallbackNone)
    /\ weather.s = <<"unavailable">>
    /\ saved = ""

\* C19: every invocation eventually terminates, main returning after it printed
\* its line, whatever the providers do, given that every timeout fires.
C19_Terminates == (pc = "load") ~> (pc = "done")

\* every invocation eventually ends, by main returning or by an uncaught exception
EventuallyEnds == (pc = "load") ~> (pc \in {"done", "crashed"})

\* C20: with invocations overlapping in their cache operations, every load_cache
\* returns None or the entry of one save_cache, city and weather as that call
\* was given them; it never raises.
C20_RaceReadsWholeEntries ==
    /\ race.ret.tag # "raise"
    /\ race.ret.tag = "dict" =>
          /\ Len(race.ret.members) = 3
          /\ \E e \in race.wrote :
                /\ Get(race.ret.members, "city", PyNone) = e[1]
                /\ Get(race.ret.members, "weather", PyNone) = e[2]

\* two save_cache calls overlapped, the shorter text written over the longer:
\* the file holds the shorter entry followed by the end of the longer one, and
\* the load_cache that read it returned None
C20_Witness ==
    /\ race.read # <<>>
    /\ LET text == race.read[1] IN
       /\ Len(text) > FirstClose(text) /\ FirstClose(text) > 0
       /\ text[Len(text)].c = "}"
    /\ Cardinality(race.wrote) = 2
    /\ race.ret = RetNone

====
